---------------------------- MODULE Spec2Model ----------------------------
(***************************************************************************)
(* A model of collectc's vector (src/src/vector.c).                        *)
(*                                                                         *)
(* A vector is a handle (a machine word) plus, for a heap handle, the      *)
(* block it points to: the header (capacity, length, elementSize) and the  *)
(* element slots that follow it.  size_t arithmetic is kept modulo         *)
(* 2^WordBits.  Memory is modelled one element record per slot; a slot     *)
(* that was never written holds Indet, the indeterminate value of C.       *)
(* Addresses wrap around the address space as size_t arithmetic does, and  *)
(* every copy is bounded in bytes.  A copy that leaves the element area of *)
(* the block, or a pointer formed outside it, is undefined behaviour: the  *)
(* call either faults or returns, and the process is not followed past it. *)
(* Nothing is said of what a copy outside the element area read or wrote.  *)
(***************************************************************************)
EXTENDS Integers, Sequences, FiniteSets, TLC

VARIABLES vec, other, status, last, log

vars == <<vec, other, status, last, log>>

(***************************************************************************)
(* Machine words.                                                          *)
(***************************************************************************)
\* sizeof(vector_t) * CHAR_BIT, scaled down from 64.
WordBits == 8

WordSize == 2 ^ WordBits

\* size_t arithmetic: the value of an integer expression as a machine word.
Word(x) == x % WordSize

\* The null pointer.
NULL == 0

\* sizeof(vector_header_t) in bytes, as on the 64-bit build (three size_t
\* fields of 8 bytes).  Only the range of a word is scaled down, not the
\* sizes in bytes, so that sizeof(vector_header_t) + n wraps for the same
\* arguments, counted from SIZE_MAX down, as it does in the code.
HeaderSize == 24

MAX_ZERO_CAPACITY_ELEMENT_SIZE == 2 ^ (WordBits - 1)

(***************************************************************************)
(* Bounds of the model.                                                    *)
(***************************************************************************)
\* Largest capacity a reallocation may reach in the model.
MaxCap == 3
\* Largest number of elements handed to one insert or push.
MaxCount == 2
\* Largest length the second vector (the argument of vector_extend) is
\* pushed to.
MaxOtherLen == 2
\* Largest capacity in the specification of vector_reserve alone.
MaxReserveCap == 17
\* Largest length pushed to in the specification of vector_reserve alone.
MaxReserveLen == 2
\* How many of the largest size_t values are tried as extraCapacity.
MaxTopArgs == 6

\* The element records callers store: two distinguishable values.
Values == {1, 2}

\* The content of memory that was allocated and never written.
Indet == 0

ElemSizes == {1, 2}

\* Addresses malloc and realloc return for the vector: aligned, so the low
\* bit is clear, and far enough apart for the blocks of the model not to
\* overlap.  realloc may keep the block where it is or move it.
HeapAddrs == {32, 96}

\* The address of the second vector's block.
OtherAddrs == {160}

\* The element buffers a caller passes to insert and push (NULL with count 0
\* is the empty buffer).
RECURSIVE SeqsUpTo(_)
SeqsUpTo(n) == IF n = 0 THEN {<<>>}
               ELSE SeqsUpTo(n - 1) \cup [1..n -> Values]

Buffers == SeqsUpTo(MaxCount)

\* The index, count and extraCapacity arguments tried: the small ones and
\* SIZE_MAX, the top of the size_t range.
SizeArgs == 0..(MaxCap + 1) \cup {WordSize - 1}

\* The extraCapacity arguments tried: those, and the values just below
\* SIZE_MAX, with which length + extraCapacity or the new capacity exceeds
\* the size_t range.
ExtraArgs == SizeArgs \cup (WordSize - MaxTopArgs)..(WordSize - 1)

(***************************************************************************)
(* Memory blocks.                                                          *)
(***************************************************************************)
NoBlock == [capacity |-> 0, length |-> 0, elementSize |-> 0, slots |-> <<>>]

\* The number of whole element records in `bytes` bytes.  Used only for
\* bytes inside the element area of a block, never to bound a copy.
ByteSlots(bytes, elementSize) ==
    IF elementSize = 0 THEN 0 ELSE bytes \div elementSize

\* The element slots that fit in the block malloc/realloc returns for
\* sizeof(vector_header_t) + (capacity * elementSize).
AllocSlots(capacity, elementSize) ==
    LET bytes == Word(HeaderSize + Word(capacity * elementSize))
    IN  IF elementSize = 0 THEN capacity
        ELSE IF bytes < HeaderSize THEN 0
        ELSE ByteSlots(bytes - HeaderSize, elementSize)

\* The byte offset from the base of the block of the pointer
\* base + sizeof(header) + index * elementSize: the product wraps as a
\* size_t and the pointer wraps around the address space, so that the offset
\* of index SIZE_MAX is one record before the element area, in the header.
ElementOffset(index, elementSize) ==
    Word(HeaderSize + Word(index * elementSize))

\* The slot that starts at byte offset `offset` of the block, for an offset
\* inside the element area.
SlotOf(offset, elementSize) == ByteSlots(offset - HeaderSize, elementSize)

\* The value a read of slot number s (from 0) of a block yields.
ReadSlot(slots, s) == IF s < Len(slots) THEN slots[s + 1] ELSE Indet

\* memmove inside the element area of one block: n slots from slot `from` to
\* slot `to`, all of them in the area (n = 0 moves nothing, wherever the
\* pointers are).
MoveSlots(slots, to, from, n) ==
    [i \in 1..Len(slots) |->
        IF i - 1 >= to /\ i - 1 < to + n
        THEN ReadSlot(slots, from + (i - 1 - to))
        ELSE slots[i]]

\* memcpy from a caller's buffer into the element area at slot `to`.
StoreSlots(slots, to, elements) ==
    [i \in 1..Len(slots) |->
        IF i - 1 >= to /\ i - 1 < to + Len(elements)
        THEN elements[i - to]
        ELSE slots[i]]

\* The size in bytes of the block a header of this capacity and element size
\* was allocated with: sizeof(vector_header_t) + (capacity * elementSize).
BlockBytes(blk) == Word(HeaderSize + Word(blk.capacity * blk.elementSize))

\* Whether a copy of `bytes` bytes at byte offset `offset` of the block
\* leaves its element area: the pointer is before the first element or past
\* the end of the block (forming it is already undefined), or the bytes do
\* not all lie in the block.
OutOfBlock(blk, offset, bytes) ==
    offset < HeaderSize \/ offset + bytes > BlockBytes(blk)

\* Whether such a copy touches a byte outside the element area.
CopiesOutside(blk, offset, bytes) ==
    bytes > 0 /\ OutOfBlock(blk, offset, bytes)

(***************************************************************************)
(* The vector: a handle and the block a heap handle points to.             *)
(***************************************************************************)
Vector(handle, blk) == [handle |-> handle, blk |-> blk]

\* The null handle: no vector.
NoVector == Vector(NULL, NoBlock)

\* The block of a vector after a copy wrote outside its element area: which
\* bytes of the header and the elements were overwritten, and with what, is
\* not known, and no field of it is meant to be read.
Smashed == NoBlock

\* What an operation did: the vector afterwards, whether it returned ("ok")
\* or called abort() ("aborted", with the reason), whether a copy or a
\* pointer left the element area (oob), whether a copy touched a byte outside
\* it (lost: the vector, or the elements copied out, are then not known),
\* how many bytes the shift was asked to move, the elements copied out and
\* the pointer returned.
Result(v, st, reason, oob, moved, out, ret) ==
    [v |-> v, st |-> st, reason |-> reason, oob |-> oob, lost |-> FALSE,
     moved |-> moved, out |-> out, ret |-> ret]

\* The result of a call one of whose copies touched bytes outside the
\* element area.
Lost(v, moved) ==
    [Result(v, "ok", "", TRUE, moved, <<>>, NULL) EXCEPT !.lost = TRUE]

Returned(v) == Result(v, "ok", "", FALSE, 0, <<>>, NULL)

Aborted(v, reason) == Result(v, "aborted", reason, FALSE, 0, <<>>, NULL)

vector_base(v) == IF v.handle % 2 # 0 THEN NULL ELSE v.handle

\* x | 1
Or1(x) == IF x % 2 = 0 THEN x + 1 ELSE x

\* The address of the element record at `index`, without bounds checking.
vector_at_unchecked(v, index) ==
    Word(vector_base(v) + HeaderSize + Word(index * v.blk.elementSize))

\* The size vector_new asks malloc for.
NewBytes(initialCapacity, elementSize) ==
    Word(HeaderSize + Word(initialCapacity * elementSize))

vector_new(initialCapacity, elementSize, addr) ==
    IF initialCapacity = 0 /\ elementSize <= MAX_ZERO_CAPACITY_ELEMENT_SIZE
    THEN Vector(Or1(Word(elementSize * 2)), NoBlock)
    ELSE Vector(addr,
                [capacity |-> initialCapacity,
                 length |-> 0,
                 elementSize |-> elementSize,
                 slots |-> [i \in 1..AllocSlots(initialCapacity, elementSize)
                               |-> Indet]])

vector_len(v) == IF vector_base(v) = NULL THEN 0 ELSE v.blk.length

vector_capacity(v) == IF vector_base(v) = NULL THEN 0 ELSE v.blk.capacity

vector_element_size(v) ==
    IF vector_base(v) = NULL THEN v.handle \div 2 ELSE v.blk.elementSize

vector_is_empty(v) == vector_len(v) = 0

\* The capacity a growing vector_reserve asks realloc for.
NewCapacity(oldCapacity, extraCapacity) ==
    Word(oldCapacity + Word((oldCapacity \div 2) * 3) + extraCapacity)

\* A reserve that reallocates as soon as the capacity is reached.
ReserveFitsStrict(length, extraCapacity, oldCapacity) ==
    Word(length + extraCapacity) < oldCapacity

\* Whether vector_reserve returns without reallocating.
ReserveFits(length, extraCapacity, oldCapacity) ==
    Word(length + extraCapacity) <= oldCapacity

\* malloc in place of realloc: the old bytes are not carried over.
ReallocFresh(slots, n) == [i \in 1..n |-> Indet]

\* realloc: the old bytes that fit are kept, the rest is indeterminate.
Realloc(slots, n) ==
    [i \in 1..n |-> IF i <= Len(slots) THEN slots[i] ELSE Indet]

\* addr is the address realloc returns and allocOk whether it succeeds.
\* When the size asked of realloc wrapped below the header's size, the
\* writes of the header run past the end of the block (oob); the header then
\* reads back as written, and the caller goes on with it.
vector_reserve(v, extraCapacity, addr, allocOk) ==
    LET length == vector_len(v)
        oldCapacity == vector_capacity(v)
        elementSize == vector_element_size(v)
        newCapacity == NewCapacity(oldCapacity, extraCapacity)
    IN  IF ReserveFits(length, extraCapacity, oldCapacity) THEN Returned(v)
        ELSE IF ~allocOk THEN Aborted(v, "alloc")
        ELSE Result(Vector(addr,
                 [capacity |-> newCapacity,
                  length |-> length,
                  elementSize |-> elementSize,
                  slots |-> Realloc(v.blk.slots,
                                    AllocSlots(newCapacity, elementSize))]),
                    "ok", "", NewBytes(newCapacity, elementSize) < HeaderSize,
                    0, <<>>, NULL)

\* The number of element records vector_insert's memmove is asked to move.
InsertMoveCount(length, index, count) == Word(length - 1 - count)

\* vector_insert's bounds check: TRUE when it aborts.
InsertRejects(v, index) == vector_base(v) = NULL \/ index > v.blk.length

vector_insert(v, index, elements, addr, allocOk) ==
    LET count == Len(elements)
        r == vector_reserve(v, count, addr, allocOk)
        w == r.v
    IN  IF r.st # "ok" THEN r
        ELSE IF InsertRejects(w, index)
        THEN [Aborted(w, "contract") EXCEPT !.oob = r.oob]
        ELSE
          LET header == w.blk
              es == header.elementSize
              at == ElementOffset(index, es)
              to == ElementOffset(Word(index + count), es)
              shifts == index < header.length
              moveBytes == IF shifts
                           THEN Word(InsertMoveCount(header.length, index, count) * es)
                           ELSE 0
              copyBytes == Word(count * es)
              moved == MoveSlots(header.slots, SlotOf(to, es), SlotOf(at, es),
                                 ByteSlots(moveBytes, es))
              copied == StoreSlots(moved, SlotOf(at, es),
                                   SubSeq(elements, 1, ByteSlots(copyBytes, es)))
          IN  IF \/ shifts /\ CopiesOutside(header, to, moveBytes)
                 \/ shifts /\ CopiesOutside(header, at, moveBytes)
                 \/ CopiesOutside(header, at, copyBytes)
              THEN Lost(Vector(w.handle, Smashed), moveBytes)
              ELSE Result(Vector(w.handle,
                                 [header EXCEPT !.slots = copied,
                                                !.length = Word(header.length + count)]),
                          "ok", "",
                          r.oob
                             \/ (shifts /\ OutOfBlock(header, to, moveBytes))
                             \/ (shifts /\ OutOfBlock(header, at, moveBytes))
                             \/ OutOfBlock(header, at, copyBytes),
                          moveBytes, <<>>, NULL)

vector_push(v, elements, addr, allocOk) ==
    vector_insert(v, vector_len(v), elements, addr, allocOk)

\* A copy of `count` bytes, the element size forgotten.
SliceBytesUnscaled(count, elementSize) == Word(count)

\* The number of bytes vector_slice's memcpy is asked to copy.
SliceBytes(count, elementSize) == Word(count * elementSize)

\* vector_slice's bounds check: TRUE when it aborts.
SliceRejects(v, index, count) ==
    vector_base(v) = NULL \/ Word(index + count) > v.blk.length

vector_slice(v, index, count) ==
    IF SliceRejects(v, index, count) THEN Aborted(v, "contract")
    ELSE
      LET header == v.blk
          es == header.elementSize
          from == ElementOffset(index, es)
          bytes == SliceBytes(count, es)
      IN  IF CopiesOutside(header, from, bytes) THEN Lost(v, 0)
          ELSE Result(v, "ok", "", OutOfBlock(header, from, bytes), 0,
                      [j \in 1..ByteSlots(bytes, es) |->
                          ReadSlot(header.slots, SlotOf(from, es) + j - 1)],
                      NULL)

\* The first `length` element records of a heap vector, as vector_extend
\* hands them to vector_push.
HeapElements(v) ==
    [j \in 1..v.blk.length |-> ReadSlot(v.blk.slots, j - 1)]

vector_extend(v, o, addr, allocOk) ==
    IF vector_element_size(v) # vector_element_size(o)
    THEN Aborted(v, "contract")
    ELSE IF vector_base(o) # NULL
    THEN vector_push(v, HeapElements(o), addr, allocOk)
    ELSE Returned(v)

\* The shift length of vector_insert, used in vector_remove.
RemoveMoveCountAsInsert(length, index, count) == Word(length - 1 - count)

\* The number of element records vector_remove's memmove is asked to move.
RemoveMoveCount(length, index, count) == Word(length - index - count)

\* vector_remove's bounds check: TRUE when it aborts.
RemoveRejects(v, index, count) ==
    vector_base(v) = NULL \/ Word(index + count) > vector_len(v)

vector_remove(v, index, count) ==
    IF RemoveRejects(v, index, count) THEN Aborted(v, "contract")
    ELSE
      LET header == v.blk
          es == header.elementSize
          from == ElementOffset(Word(index + count), es)
          to == ElementOffset(index, es)
          bytes == Word(RemoveMoveCount(header.length, index, count) * es)
      IN  IF CopiesOutside(header, to, bytes) \/ CopiesOutside(header, from, bytes)
          THEN Lost(Vector(v.handle, Smashed), bytes)
          ELSE Result(Vector(v.handle,
                             [header EXCEPT
                                 !.slots = MoveSlots(header.slots, SlotOf(to, es),
                                                     SlotOf(from, es),
                                                     ByteSlots(bytes, es)),
                                 !.length = Word(header.length - count)]),
                      "ok", "",
                      OutOfBlock(header, to, bytes) \/ OutOfBlock(header, from, bytes),
                      bytes, <<>>, NULL)

\* A caller's vector_insert(&vec, index, elements, count) immediately
\* followed by vector_remove(vec, index, count).
InsertThenRemove(v, index, elements, addr, allocOk) ==
    LET r == vector_insert(v, index, elements, addr, allocOk)
    IN  IF r.st # "ok" \/ r.oob THEN r
        ELSE vector_remove(r.v, index, Len(elements))

\* The bounds check off by one: index == length passes.
vector_at_mut_inclusive(v, index) ==
    IF index <= vector_len(v) THEN vector_at_unchecked(v, index) ELSE NULL

vector_at_mut(v, index) ==
    IF index < vector_len(v) THEN vector_at_unchecked(v, index) ELSE NULL

vector_at(v, index) == vector_at_mut(v, index)

vector_first(v) == vector_at(v, 0)

vector_last(v) ==
    LET length == vector_len(v)
    IN  IF length > 0 THEN vector_at_unchecked(v, length - 1) ELSE NULL

vector_clear(v) ==
    IF vector_base(v) # NULL
    THEN Vector(v.handle, [v.blk EXCEPT !.length = 0])
    ELSE v

\* free(): the block is gone; a tagged handle has none.
vector_delete(v) == Vector(v.handle, NoBlock)

\* The element record a pointer returned by a lookup points to.
Deref(v, ptr) ==
    ReadSlot(v.blk.slots,
             ByteSlots(Word(ptr - vector_base(v) - HeaderSize),
                       v.blk.elementSize))

\* What a caller reads through vector_at(v, i) for every i < vector_len(v).
Contents(v) ==
    [i \in 1..vector_len(v) |-> Deref(v, vector_at(v, i - 1))]

(***************************************************************************)
(* The program: one vector `vec` that every operation is called on, and a  *)
(* second vector `other` that is built by pushes and handed to             *)
(* vector_extend.  status is "start" before vector_new is called, "ok"     *)
(* while the process runs, "aborted" after abort() and "deleted" after     *)
(* vector_delete.  After undefined behaviour it is "crashed" when the call *)
(* faulted, "corrupt" when the call returned having formed a pointer       *)
(* outside the element area without copying a byte through it, or having   *)
(* written the header of a block allocated too small for it (the header    *)
(* then holds what the code wrote to it); it is "corrupt" as well when a   *)
(* call returned with the length above the capacity (a vector_reserve      *)
(* whose new capacity wrapped below the length: the elements are no longer *)
(* in the block); and it is "undefined" when the call                      *)
(* returned from a copy that touched bytes outside the element area (the   *)
(* block, or the elements copied out, are then not known).  The process is *)
(* not followed past any of the three.  A call leaves its record in last;  *)
(* the caller then takes it (Return) before it makes the next call.  last  *)
(* records the latest call: its arguments (count is the count,             *)
(* extraCapacity or initialCapacity argument, size the elementSize         *)
(* argument), both vectors before it, and what it returned.  log holds the *)
(* elements pushed since vector_new for as long as push is the only        *)
(* mutation called, and in log.cleared, from a vector_clear on and for as  *)
(* long as only pushes and lookups follow it, the handle and capacity the  *)
(* clear left and the number of elements pushed since.                     *)
(***************************************************************************)
Call(op, index, count, elements, r) ==
    [op |-> op, index |-> index, count |-> count, size |-> 0,
     elements |-> elements, pre |-> vec, preOther |-> other,
     reason |-> r.reason, oob |-> r.oob, lost |-> r.lost,
     moved |-> r.moved,
     out |-> r.out, ret |-> r.ret]

\* vector_clear has not been called, or a call other than a push or a lookup
\* followed it.
NotCleared == [on |-> FALSE, handle |-> NULL, capacity |-> 0, pushed |-> 0]

NoLog == [only |-> FALSE, pushed |-> <<>>, cleared |-> NotCleared]

\* The log after vector_new.
NewLog == [only |-> TRUE, pushed |-> <<>>, cleared |-> NotCleared]

\* No call's record is pending.
Idle == [op |-> "none", index |-> 0, count |-> 0, size |-> 0, elements |-> <<>>,
         pre |-> NoVector, preOther |-> NoVector, reason |-> "", oob |-> FALSE,
         lost |-> FALSE,
         moved |-> 0, out |-> <<>>, ret |-> NULL]

\* The caller may make a call.
Ready == status = "ok" /\ last.op = "none"

\* An out-of-block copy is undefined: the process faults or carries on.
Faults(r) == IF r.st = "ok" /\ r.oob THEN BOOLEAN ELSE {FALSE}

StatusAfter(r, fault) ==
    IF r.st # "ok" THEN r.st
    ELSE IF ~r.oob
    THEN IF vector_len(r.v) > vector_capacity(r.v) THEN "corrupt" ELSE "ok"
    ELSE IF fault THEN "crashed"
    ELSE IF r.lost THEN "undefined"
    ELSE "corrupt"

InitVec(others) ==
    /\ \E c \in 0..MaxCap, s \in ElemSizes, a \in HeapAddrs :
          vec = vector_new(c, s, a)
    /\ other \in others
    /\ status = "ok"
    /\ last = Idle
    /\ log = NewLog

Init == InitVec({NoVector})

Reserve ==
    /\ Ready
    /\ \E extra \in ExtraArgs, a \in HeapAddrs, allocOk \in BOOLEAN :
         LET r == vector_reserve(vec, extra, a, allocOk)
         IN  /\ vector_capacity(r.v) <= MaxCap
             /\ \E fault \in Faults(r) :
                  /\ vec' = r.v
                  /\ status' = StatusAfter(r, fault)
                  /\ last' = Call("reserve", 0, extra, <<>>, r)
    /\ log' = [log EXCEPT !.cleared = NotCleared]
    /\ UNCHANGED other

Insert ==
    /\ Ready
    /\ \E index \in SizeArgs, elements \in Buffers, a \in HeapAddrs,
          allocOk \in BOOLEAN :
         LET r == vector_insert(vec, index, elements, a, allocOk)
         IN  /\ vector_capacity(r.v) <= MaxCap
             /\ \E fault \in Faults(r) :
                  /\ vec' = r.v
                  /\ status' = StatusAfter(r, fault)
                  /\ last' = Call("insert", index, Len(elements), elements, r)
    /\ log' = NoLog
    /\ UNCHANGED other

Push ==
    /\ Ready
    /\ \E elements \in Buffers, a \in HeapAddrs, allocOk \in BOOLEAN :
         LET r == vector_push(vec, elements, a, allocOk)
         IN  /\ vector_capacity(r.v) <= MaxCap
             /\ \E fault \in Faults(r) :
                  /\ vec' = r.v
                  /\ status' = StatusAfter(r, fault)
                  /\ last' = Call("push", vector_len(vec), Len(elements), elements, r)
             /\ log' = [log EXCEPT
                          !.pushed = IF log.only THEN @ \o elements ELSE @,
                          !.cleared.pushed = IF log.cleared.on
                                             THEN @ + Len(elements) ELSE @]
    /\ UNCHANGED other

Slice ==
    /\ Ready
    /\ \E index \in SizeArgs, count \in SizeArgs :
         LET r == vector_slice(vec, index, count)
         IN  \E fault \in Faults(r) :
                /\ status' = StatusAfter(r, fault)
                /\ last' = Call("slice", index, count, <<>>, r)
    /\ UNCHANGED <<vec, other, log>>

Remove ==
    /\ Ready
    /\ \E index \in SizeArgs, count \in SizeArgs :
         LET r == vector_remove(vec, index, count)
         IN  \E fault \in Faults(r) :
                /\ vec' = r.v
                /\ status' = StatusAfter(r, fault)
                /\ last' = Call("remove", index, count, <<>>, r)
    /\ log' = NoLog
    /\ UNCHANGED other

InsertRemove ==
    /\ Ready
    /\ \E index \in SizeArgs, elements \in Buffers, a \in HeapAddrs,
          allocOk \in BOOLEAN :
         LET r == InsertThenRemove(vec, index, elements, a, allocOk)
         IN  /\ vector_capacity(r.v) <= MaxCap
             /\ \E fault \in Faults(r) :
                  /\ vec' = r.v
                  /\ status' = StatusAfter(r, fault)
                  /\ last' = Call("insert_remove", index, Len(elements), elements, r)
    /\ log' = NoLog
    /\ UNCHANGED other

Lookup(op, index, ret) ==
    /\ Ready
    /\ last' = Call(op, index, 0, <<>>,
                    Result(vec, "ok", "", FALSE, 0, <<>>, ret))
    /\ UNCHANGED <<vec, other, status, log>>

First == Lookup("first", 0, vector_first(vec))

At == \E index \in SizeArgs : Lookup("at", index, vector_at(vec, index))

AtMut == \E index \in SizeArgs : Lookup("at_mut", index, vector_at_mut(vec, index))

Last == Lookup("last", 0, vector_last(vec))

Clear ==
    /\ Ready
    /\ vec' = vector_clear(vec)
    /\ last' = Call("clear", 0, 0, <<>>, Returned(vec'))
    /\ log' = [NoLog EXCEPT !.cleared = [on |-> TRUE, handle |-> vec'.handle,
                                         capacity |-> vector_capacity(vec'),
                                         pushed |-> 0]]
    /\ UNCHANGED <<other, status>>

Delete ==
    /\ Ready
    /\ vec' = vector_delete(vec)
    /\ status' = "deleted"
    /\ last' = Call("delete", 0, 0, <<>>, Returned(vec'))
    /\ log' = NoLog
    /\ UNCHANGED other

\* The caller has looked at the call's result.
Return ==
    /\ status = "ok"
    /\ last.op # "none"
    /\ last' = Idle
    /\ UNCHANGED <<vec, other, status, log>>

Next ==
    \/ Return
    \/ Reserve
    \/ Insert
    \/ Push
    \/ Slice
    \/ Remove
    \/ InsertRemove
    \/ First
    \/ At
    \/ AtMut
    \/ Last
    \/ Clear
    \/ Delete

Spec == Init /\ [][Next]_vars

(***************************************************************************)
(* vector_extend: two vectors, each made by vector_new and filled by       *)
(* pushes, and the first extended by the second.                           *)
(***************************************************************************)
InitExtend ==
    InitVec({vector_new(c, s, a) : c \in 0..MaxOtherLen, s \in ElemSizes,
                                  a \in OtherAddrs})

OtherPush ==
    /\ Ready
    /\ \E elements \in Buffers, a \in OtherAddrs, allocOk \in BOOLEAN :
         LET r == vector_push(other, elements, a, allocOk)
         IN  /\ vector_len(r.v) <= MaxOtherLen
             /\ vector_capacity(r.v) <= MaxCap
             /\ other' = r.v
             /\ status' = StatusAfter(r, FALSE)
             /\ last' = Call("other_push", vector_len(other), Len(elements),
                             elements, r)
    /\ UNCHANGED <<vec, log>>

Extend ==
    /\ Ready
    /\ \E a \in HeapAddrs, allocOk \in BOOLEAN :
         LET r == vector_extend(vec, other, a, allocOk)
         IN  /\ vector_capacity(r.v) <= MaxCap
             /\ \E fault \in Faults(r) :
                  /\ vec' = r.v
                  /\ status' = StatusAfter(r, fault)
                  /\ last' = Call("extend", 0, vector_len(other), <<>>, r)
    /\ log' = NoLog
    /\ UNCHANGED other

NextExtend ==
    \/ Return
    \/ Push
    \/ OtherPush
    \/ Extend

SpecExtend == InitExtend /\ [][NextExtend]_vars

(***************************************************************************)
(* vector_reserve alone, over a wider range of capacities: vectors of any  *)
(* initial capacity, a few elements pushed, and reserve called.            *)
(***************************************************************************)
InitReserve ==
    /\ \E c \in 0..MaxReserveCap, s \in ElemSizes, a \in HeapAddrs :
          vec = vector_new(c, s, a)
    /\ other = NoVector
    /\ status = "ok"
    /\ last = Idle
    /\ log = NewLog

ReserveWide ==
    /\ Ready
    /\ \E extra \in ExtraArgs, a \in HeapAddrs, allocOk \in BOOLEAN :
         LET r == vector_reserve(vec, extra, a, allocOk)
         IN  /\ vector_capacity(r.v) <= MaxReserveCap
             /\ vec' = r.v
             /\ status' = StatusAfter(r, FALSE)
             /\ last' = Call("reserve", 0, extra, <<>>, r)
    /\ UNCHANGED <<other, log>>

PushFew ==
    /\ Ready
    /\ \E elements \in Buffers, a \in HeapAddrs, allocOk \in BOOLEAN :
         LET r == vector_push(vec, elements, a, allocOk)
         IN  /\ vector_len(r.v) <= MaxReserveLen
             /\ vector_capacity(r.v) <= MaxReserveCap
             /\ \E fault \in Faults(r) :
                  /\ vec' = r.v
                  /\ status' = StatusAfter(r, fault)
                  /\ last' = Call("push", vector_len(vec), Len(elements), elements, r)
    /\ UNCHANGED <<other, log>>

NextReserve ==
    \/ Return
    \/ ReserveWide
    \/ PushFew

SpecReserve == InitReserve /\ [][NextReserve]_vars

(***************************************************************************)
(* vector_new as a call: any initial capacity, and element sizes up to the *)
(* top of the size_t range, then the calls that change the vector.         *)
(***************************************************************************)
\* The element sizes tried: zero, one, the sizes around the largest that fits
\* in the bits of a tagged handle, and SIZE_MAX.
NewElemSizes ==
    {0, 1, MAX_ZERO_CAPACITY_ELEMENT_SIZE - 1, MAX_ZERO_CAPACITY_ELEMENT_SIZE,
     MAX_ZERO_CAPACITY_ELEMENT_SIZE + 1, WordSize - 1}

InitNew ==
    /\ vec = NoVector
    /\ other = NoVector
    /\ status = "start"
    /\ last = Idle
    /\ log = NewLog

\* malloc may fail (abort); when the size asked of malloc wrapped below the
\* header's size, the writes of the header run past the end of the block
\* and the header reads back as written.
New ==
    /\ status = "start"
    /\ \E c \in 0..MaxCap, s \in NewElemSizes, a \in HeapAddrs,
          allocOk \in BOOLEAN :
         LET v == vector_new(c, s, a)
             r == IF vector_base(v) # NULL /\ ~allocOk
                  THEN Aborted(NoVector, "alloc")
                  ELSE Result(v, "ok", "",
                              vector_base(v) # NULL /\ NewBytes(c, s) < HeaderSize,
                              0, <<>>, NULL)
         IN  \E fault \in Faults(r) :
                /\ vec' = r.v
                /\ status' = StatusAfter(r, fault)
                /\ last' = [Call("new", 0, c, <<>>, r) EXCEPT !.size = s]
    /\ UNCHANGED <<other, log>>

NextNew ==
    \/ New
    \/ Return
    \/ Reserve
    \/ Push
    \/ Remove
    \/ Clear

SpecNew == InitNew /\ [][NextNew]_vars

(***************************************************************************)
(* The claims.  Every formula is about the call recorded in last: S is the *)
(* vector's contents before it, n its length before it.                    *)
(***************************************************************************)
\* The call was not ended by malloc/realloc returning NULL.
AllocationHeld == last.reason # "alloc"

\* The address of element i of a heap vector: its header, then i records.
ElementAddress(v, i) == v.handle + HeaderSize + i * v.blk.elementSize

\* S[0..index), E, S[index..n)
Spliced(S, index, E) ==
    SubSeq(S, 1, index) \o E \o SubSeq(S, index + 1, Len(S))

\* S[0..index), S[index+count..n)
Cut(S, index, count) ==
    SubSeq(S, 1, index) \o SubSeq(S, index + count + 1, Len(S))

\* C1: vector_insert(&vec, index, E, count) with index <= n and count >= 1
\* leaves the vector holding S[0..index), E, S[index..n), of length
\* n + count.
C1_InsertShiftsAndCopies ==
    (/\ last.op = "insert"
     /\ last.count >= 1
     /\ last.index <= vector_len(last.pre)
     /\ AllocationHeld)
    => /\ status = "ok"
       /\ vector_len(vec) = vector_len(last.pre) + last.count
       /\ Contents(vec) = Spliced(Contents(last.pre), last.index, last.elements)

\* C2: a zero-count insert, push, remove or slice returns without aborting
\* and leaves length, capacity and contents as they were, whatever the index
\* and whatever the vector.
C2_ZeroCountIsNoOp ==
    (/\ last.op \in {"insert", "push", "remove", "slice"}
     /\ last.count = 0)
    => /\ status = "ok"
       /\ vec = last.pre

\* C3: vector_extend(&a, b) on vectors of equal element size returns without
\* aborting, leaves a holding its prior contents followed by b's, and leaves
\* b as it was.
C3_ExtendAppendsOther ==
    (/\ last.op = "extend"
     /\ vector_element_size(last.pre) = vector_element_size(last.preOther)
     /\ AllocationHeld)
    => /\ status = "ok"
       /\ vector_len(vec) = vector_len(last.pre) + vector_len(last.preOther)
       /\ Contents(vec) = Contents(last.pre) \o Contents(last.preOther)
       /\ other = last.preOther

\* C4: vector_insert at index (index <= n, count >= 1) immediately followed
\* by vector_remove of the same range leaves the contents S and the length n.
C4_InsertThenRemoveIsIdentity ==
    (/\ last.op = "insert_remove"
     /\ last.count >= 1
     /\ last.index <= vector_len(last.pre)
     /\ AllocationHeld)
    => /\ status = "ok"
       /\ vector_len(vec) = vector_len(last.pre)
       /\ Contents(vec) = Contents(last.pre)

\* C5: after any sequence of pushes on a new vector the length is the sum of
\* the counts pushed and vector_at(vec, i) points to the i-th element
\* pushed, across reallocations.
C5_PushesKeepInsertionOrder ==
    (log.only /\ status = "ok")
    => /\ vector_len(vec) = Len(log.pushed)
       /\ \A i \in 0..(Len(log.pushed) - 1) :
            /\ vector_at(vec, i) # NULL
            /\ Deref(vec, vector_at(vec, i)) = log.pushed[i + 1]

\* C5 witness: a push onto a non-empty heap vector that reallocated and
\* moved the block, three elements pushed in all.
C5_Witness ==
    /\ last.op = "push"
    /\ status = "ok"
    /\ log.only
    /\ Len(log.pushed) = 3
    /\ vector_len(last.pre) >= 1
    /\ vec.handle # last.pre.handle
    /\ vector_capacity(vec) > vector_capacity(last.pre)

\* C6: vector_remove(vec, index, count) with count >= 1 and
\* index + count <= n leaves S[0..index), S[index+count..n), of length
\* n - count, with the capacity and the handle unchanged.
C6_RemoveClosesGap ==
    (/\ last.op = "remove"
     /\ last.count >= 1
     /\ last.index + last.count <= vector_len(last.pre))
    => /\ status = "ok"
       /\ vector_len(vec) = vector_len(last.pre) - last.count
       /\ Contents(vec) = Cut(Contents(last.pre), last.index, last.count)
       /\ vector_capacity(vec) = vector_capacity(last.pre)
       /\ vec.handle = last.pre.handle

\* C6 witness: a removal from the middle, with elements before and after.
C6_Witness ==
    /\ last.op = "remove"
    /\ status = "ok"
    /\ last.count >= 1
    /\ last.index >= 1
    /\ last.index + last.count < vector_len(last.pre)

\* C7: vector_slice(vec, index, out, count) with count >= 1 and
\* index + count <= n writes S[index], ..., S[index+count-1] to out in
\* order and leaves the vector as it was.
C7_SliceCopiesRange ==
    (/\ last.op = "slice"
     /\ last.count >= 1
     /\ last.index + last.count <= vector_len(last.pre))
    => /\ status = "ok"
       /\ last.out = SubSeq(Contents(last.pre), last.index + 1,
                            last.index + last.count)
       /\ vec = last.pre

\* C7 witness: two elements of two bytes each copied from the middle.
C7_Witness ==
    /\ last.op = "slice"
    /\ status = "ok"
    /\ last.count = 2
    /\ last.index >= 1
    /\ vector_element_size(last.pre) = 2
    /\ last.out[1] # last.out[2]

\* C8: vector_slice and vector_remove abort for every index and every
\* count >= 1, over the whole size_t range, for which index .. index+count-1
\* is not inside [0, n).
C8_OutOfRangeAborts ==
    (/\ last.op \in {"slice", "remove"}
     /\ last.count >= 1
     /\ last.index + last.count > vector_len(last.pre))
    => status = "aborted"

\* C9: lookups never abort; vector_at and vector_at_mut return null exactly
\* when index >= n and otherwise the address of element index; vector_first
\* and vector_last return null exactly when the vector is empty and
\* otherwise the addresses of elements 0 and n - 1.
C9_LookupNullIffOutOfRange ==
    LET n == vector_len(last.pre)
        AddressOrNull(inRange, i) ==
            IF inRange
            THEN last.ret = ElementAddress(last.pre, i) /\ last.ret # NULL
            ELSE last.ret = NULL
    IN  (last.op \in {"at", "at_mut", "first", "last"})
        => /\ status = "ok"
           /\ vec = last.pre
           /\ last.op \in {"at", "at_mut"} => AddressOrNull(last.index < n, last.index)
           /\ last.op = "first" => AddressOrNull(n > 0, 0)
           /\ last.op = "last" => AddressOrNull(n > 0, n - 1)

\* C9 witness: vector_at returned the address of an element past the first.
C9_Witness ==
    /\ last.op = "at"
    /\ last.index >= 1
    /\ last.ret # NULL
    /\ Deref(vec, last.ret) \in Values

\* C10 as stated: vector_reserve leaves the capacity unchanged when
\* n + extra <= capacity and otherwise makes it exactly
\* capacity + floor(capacity * 1.5) + extra, with length, element size and
\* contents preserved.
C10_GrowthByOneAndAHalf ==
    LET n == vector_len(last.pre)
        c == vector_capacity(last.pre)
    IN  (last.op = "reserve" /\ status \in {"ok", "corrupt"})
        => /\ n + last.count <= c => vector_capacity(vec) = c
           /\ n + last.count > c
                => vector_capacity(vec) = c + ((c * 3) \div 2) + last.count
           /\ vector_len(vec) = n
           /\ vector_element_size(vec) = vector_element_size(last.pre)
           /\ Contents(vec) = Contents(last.pre)

\* C11: the vector vector_new(c, s) returns reports element size s, length 0
\* and capacity c, for every c and every s a machine word holds; it is the
\* tagged form only when c = 0 and s fits in WordBits - 1 bits (a larger s
\* allocates); and every call that returns leaves vector_element_size as it
\* was, so that it is s after any sequence of calls.
C11_NewReportsItsArguments ==
    /\ (last.op = "new" /\ status = "ok")
        => /\ vector_element_size(vec) = last.size
           /\ vector_len(vec) = 0
           /\ vector_capacity(vec) = last.count
           /\ vector_base(vec) = NULL
                 => (last.count = 0 /\ last.size < 2 ^ (WordBits - 1))
    /\ (last.op \notin {"none", "new"} /\ status = "ok")
        => vector_element_size(vec) = vector_element_size(last.pre)

\* C12: vector_clear sets the length to zero and leaves the capacity and the
\* handle as they were, and changes nothing of a tagged-empty vector; and
\* while the pushes that follow a clear total at most the capacity, the
\* capacity and the handle are still the ones the clear left.
C12_ClearKeepsTheBlock ==
    /\ last.op = "clear"
        => /\ status = "ok"
           /\ vector_len(vec) = 0
           /\ vector_capacity(vec) = vector_capacity(last.pre)
           /\ vec.handle = last.pre.handle
           /\ vector_base(last.pre) = NULL => vec = last.pre
    /\ (log.cleared.on /\ log.cleared.pushed <= log.cleared.capacity)
        => /\ vec.handle = log.cleared.handle
           /\ vector_capacity(vec) = log.cleared.capacity

\* C12 witness: a vector was cleared, and two or more
\* pushes after the clear have filled it to its capacity again.
C12_Witness ==
    /\ status = "ok"
    /\ last.op = "push"
    /\ last.count >= 1
    /\ log.cleared.on
    /\ log.cleared.capacity >= 2
    /\ log.cleared.pushed = log.cleared.capacity
    /\ log.cleared.pushed > last.count
    /\ vector_len(vec) = vector_capacity(vec)

\* C13: in every state reached by calls that did not abort, the length of
\* the vector is at most its capacity, and a tagged-empty vector has no
\* block, its length and capacity both zero.
C13_LengthWithinCapacity ==
    status \in {"ok", "corrupt"}
    => /\ vector_len(vec) <= vector_capacity(vec)
       /\ vector_base(vec) = NULL
             => (vec.blk = NoBlock /\ vector_len(vec) = 0 /\ vector_capacity(vec) = 0)

\* C14: whenever vector_insert (or vector_push) passes its bounds check, the
\* slots its memmove and memcpy read and write all lie inside the block, and
\* the number of bytes the memmove is asked to move is not a wrapped-around
\* difference: it is at most the bytes of the elements the vector held.
C14_InsertStaysInBlock ==
    (last.op \in {"insert", "push"}
        /\ status \in {"ok", "corrupt", "undefined", "crashed"})
    => /\ ~last.oob
       /\ last.moved <= vector_len(last.pre) * vector_element_size(last.pre)

=============================================================================
